---- MODULE Spec2Model ----
(***************************************************************************)
(* Model of backend/app.py: the interview service's helper functions       *)
(* (generate, extract_json, extract_text_from_pdf, extract_resume_basic,   *)
(* extract_resume, gen_questions, gen_followup, evaluate, final_report)    *)
(* and its four endpoints.                                                 *)
(*                                                                         *)
(* A Python str is a sequence of one-character strings.  A Python value    *)
(* (what json.loads returns) is a tagged record:                           *)
(*   None  [k |-> "null"]            bool  [k |-> "bool", b |-> ...]       *)
(*   int   [k |-> "num", n |-> ...]  str   [k |-> "str", s |-> <<...>>]    *)
(*   list  [k |-> "list", items |-> <<...>>]                               *)
(*   dict  [k |-> "dict", d |-> function from key strings to values]       *)
(* The JSON texts of the model use objects, arrays, strings without        *)
(* escapes, non-negative integers, true/false/null and whitespace; the     *)
(* alphabets below hold no backslash, sign, fraction or exponent.          *)
(***************************************************************************)
EXTENDS Integers, Sequences, FiniteSets, TLC

VARIABLES
    call,        \* the function call under way: its name and arguments
    ret,         \* its outcome: pending, a returned value, or a raised exception
    genlog,      \* the generate() calls made so far by the call: <<[max_tokens, temp]>>
    collected,   \* the evaluation records a client has collected from /answer
    requests,    \* the server's requests: endpoint, argument, position in the handler
    loop         \* the request whose coroutine holds the event loop thread, 0 when free

vars == <<call, ret, genlog, collected, requests, loop>>

(* ------------------------------ values -------------------------------- *)

JNull == [k |-> "null"]
JBool(b) == [k |-> "bool", b |-> b]
JNum(n) == [k |-> "num", n |-> n]
JStr(s) == [k |-> "str", s |-> s]
JList(items) == [k |-> "list", items |-> items]
JDict(d) == [k |-> "dict", d |-> d]

\* Python truthiness: bool(v)
Truthy(v) ==
    CASE v.k = "null" -> FALSE
      [] v.k = "bool" -> v.b
      [] v.k = "num" -> v.n # 0
      [] v.k = "str" -> v.s # <<>>
      [] v.k = "list" -> v.items # <<>>
      [] v.k = "dict" -> DOMAIN v.d # {}

Pending == [kind |-> "pending"]
Returned(v) == [kind |-> "value", v |-> v]
Raised(exc) == [kind |-> "raise", exc |-> exc]

(* ------------------------------ strings ------------------------------- *)

Whitespace == {" ", "\n", "\t", "\r"}

RECURSIVE SkipWs(_, _)
\* the first index >= i of s that holds no whitespace (Len(s) + 1 when none)
SkipWs(s, i) ==
    IF i <= Len(s) /\ s[i] \in Whitespace THEN SkipWs(s, i + 1) ELSE i

RECURSIVE SkipWsBack(_, _)
\* the last index <= i of s that holds no whitespace (0 when none)
SkipWsBack(s, i) ==
    IF i >= 1 /\ s[i] \in Whitespace THEN SkipWsBack(s, i - 1) ELSE i

\* str.strip()
strip(s) == SubSeq(s, SkipWs(s, 1), SkipWsBack(s, Len(s)))

StartsAt(s, sub, i) ==
    /\ i >= 1
    /\ i + Len(sub) - 1 <= Len(s)
    /\ \A n \in 1..Len(sub) : s[i + n - 1] = sub[n]

RECURSIVE find(_, _, _)
\* str.find(sub, start), 1-based; 0 when sub does not occur at or after i
find(s, sub, i) ==
    IF i + Len(sub) - 1 > Len(s) THEN 0
    ELSE IF StartsAt(s, sub, i) THEN i
    ELSE find(s, sub, i + 1)

RECURSIVE rfind(_, _, _)
\* the last occurrence of sub in s starting at or before i; 0 when none
rfind(s, sub, i) ==
    IF i < 1 THEN 0
    ELSE IF StartsAt(s, sub, i) THEN i
    ELSE rfind(s, sub, i - 1)

(* ------------------------------ generate ------------------------------ *)

ASSISTANT_MARKER == <<"<", "|", "a", "s", "s", "i", "s", "t", "a", "n", "t", "|", ">">>

\* generate(): lines 58-61.  decoded is tokenizer.decode(out[0], ...), the
\* text the library hands back; the part after the last marker is kept when
\* the marker is present, and the result is stripped.
generate(decoded) ==
    LET m == rfind(decoded, ASSISTANT_MARKER, Len(decoded))
        text == IF m # 0
                THEN strip(SubSeq(decoded, m + Len(ASSISTANT_MARKER), Len(decoded)))
                ELSE decoded
    IN  strip(text)

DEFAULT_MAX_TOKENS == 800
DEFAULT_TEMP == "0.7"

(* ------------------------------ json.loads ---------------------------- *)

Digits == {"0", "1", "2", "3", "4", "5", "6", "7", "8", "9"}

DigitVal(c) ==
    CASE c = "0" -> 0 [] c = "1" -> 1 [] c = "2" -> 2 [] c = "3" -> 3
      [] c = "4" -> 4 [] c = "5" -> 5 [] c = "6" -> 6 [] c = "7" -> 7
      [] c = "8" -> 8 [] c = "9" -> 9

ParseFail == [ok |-> FALSE, v |-> JNull, next |-> 0]
ParseOk(v, next) == [ok |-> TRUE, v |-> v, next |-> next]

RECURSIVE ScanInt(_, _, _)
\* the digits from i on, folded into acc: [1-9]\d*
ScanInt(s, i, acc) ==
    IF i <= Len(s) /\ s[i] \in Digits
    THEN ScanInt(s, i + 1, 10 * acc + DigitVal(s[i]))
    ELSE ParseOk(JNum(acc), i)

\* json's NUMBER_RE at i: 0 | [1-9]\d*  (a leading 0 ends the number)
ParseNumber(s, i) ==
    IF s[i] = "0" THEN ParseOk(JNum(0), i + 1) ELSE ScanInt(s, i, 0)

\* a string literal opening at s[i] = '"': up to the next quote; strict mode
\* refuses a control character inside it
ParseString(s, i) ==
    LET j == find(s, <<"\"">>, i + 1)
    IN  IF j = 0 THEN ParseFail
        ELSE IF \E n \in (i + 1)..(j - 1) : s[n] \in {"\n", "\t", "\r"} THEN ParseFail
        ELSE ParseOk(JStr(SubSeq(s, i + 1, j - 1)), j + 1)

LIT_NULL == <<"n", "u", "l", "l">>
LIT_TRUE == <<"t", "r", "u", "e">>
LIT_FALSE == <<"f", "a", "l", "s", "e">>

RECURSIVE ParseValue(_, _)
RECURSIVE ParseElements(_, _, _)
RECURSIVE ParseMembers(_, _, _)

\* scan_once at index i
ParseValue(s, i) ==
    IF i > Len(s) THEN ParseFail
    ELSE IF s[i] = "{" THEN
        LET j == SkipWs(s, i + 1)
        IN  IF j <= Len(s) /\ s[j] = "}" THEN ParseOk(JDict(<<>>), j + 1)
            ELSE ParseMembers(s, j, <<>>)
    ELSE IF s[i] = "[" THEN
        LET j == SkipWs(s, i + 1)
        IN  IF j <= Len(s) /\ s[j] = "]" THEN ParseOk(JList(<<>>), j + 1)
            ELSE ParseElements(s, j, <<>>)
    ELSE IF s[i] = "\"" THEN ParseString(s, i)
    ELSE IF s[i] \in Digits THEN ParseNumber(s, i)
    ELSE IF StartsAt(s, LIT_NULL, i) THEN ParseOk(JNull, i + Len(LIT_NULL))
    ELSE IF StartsAt(s, LIT_TRUE, i) THEN ParseOk(JBool(TRUE), i + Len(LIT_TRUE))
    ELSE IF StartsAt(s, LIT_FALSE, i) THEN ParseOk(JBool(FALSE), i + Len(LIT_FALSE))
    ELSE ParseFail

\* JSONArray: a value at i, then "]" or "," and the next value
ParseElements(s, i, acc) ==
    LET r == ParseValue(s, i)
        j == SkipWs(s, r.next)
    IN  IF ~r.ok \/ j > Len(s) THEN ParseFail
        ELSE IF s[j] = "]" THEN ParseOk(JList(Append(acc, r.v)), j + 1)
        ELSE IF s[j] = "," THEN ParseElements(s, SkipWs(s, j + 1), Append(acc, r.v))
        ELSE ParseFail

\* JSONObject: a "key" at i, ":", a value, then "}" or "," and the next key;
\* a repeated key keeps its last value
ParseMembers(s, i, d) ==
    IF i > Len(s) \/ s[i] # "\"" THEN ParseFail
    ELSE
        LET key == ParseString(s, i)
            c == SkipWs(s, key.next)
            r == ParseValue(s, SkipWs(s, c + 1))
            j == SkipWs(s, r.next)
            d2 == (key.v.s :> r.v) @@ d
        IN  IF ~key.ok \/ c > Len(s) \/ s[c] # ":" THEN ParseFail
            ELSE IF ~r.ok \/ j > Len(s) THEN ParseFail
            ELSE IF s[j] = "}" THEN ParseOk(JDict(d2), j + 1)
            ELSE IF s[j] = "," THEN ParseMembers(s, SkipWs(s, j + 1), d2)
            ELSE ParseFail

\* json.loads(s): one value with whitespace around it and nothing after;
\* [ok |-> FALSE] stands for the exception it raises
json_loads(s) ==
    LET r == ParseValue(s, SkipWs(s, 1))
    IN  IF r.ok /\ SkipWs(s, r.next) = Len(s) + 1
        THEN [ok |-> TRUE, v |-> r.v]
        ELSE [ok |-> FALSE, v |-> JNull]

(* ------------------------------ extract_json -------------------------- *)

\* re.search(open + '.*?' + close, text, re.DOTALL).group(): from the first
\* open to the first close after it; <<>> stands for no match
re_search(text, open, close) ==
    LET i == find(text, <<open>>, 1)
        j == IF i = 0 THEN 0 ELSE find(text, <<close>>, i + 1)
    IN  IF j = 0 THEN <<>> ELSE SubSeq(text, i, j)

\* the mutant: a greedy match, up to the last close
re_search_greedy(text, open, close) ==
    LET i == find(text, <<open>>, 1)
        j == IF i = 0 THEN 0 ELSE rfind(text, <<close>>, Len(text))
    IN  IF j <= i THEN <<>> ELSE SubSeq(text, i, j)

extract_json_greedy(text) ==
    IF text = <<>> THEN JNull
    ELSE
        LET first(obj, po, arr, pa) ==
                IF obj # <<>> /\ po.ok THEN po.v
                ELSE IF arr # <<>> /\ pa.ok THEN pa.v
                ELSE JNull
            loads(obj, arr) == first(obj, json_loads(obj), arr, json_loads(arr))
        IN  loads(re_search_greedy(text, "{", "}"), re_search_greedy(text, "[", "]"))

extract_json(text) ==
    IF text = <<>> THEN JNull
    ELSE
        LET first(obj, po, arr, pa) ==
                IF obj # <<>> /\ po.ok THEN po.v
                ELSE IF arr # <<>> /\ pa.ok THEN pa.v
                ELSE JNull
            loads(obj, arr) == first(obj, json_loads(obj), arr, json_loads(arr))
        IN  loads(re_search(text, "{", "}"), re_search(text, "[", "]"))

(* ------------------------------ evaluate ------------------------------ *)

K_technical_accuracy == <<"t", "e", "c", "h", "n", "i", "c", "a", "l", "_", "a", "c", "c", "u", "r", "a", "c", "y">>
K_completeness == <<"c", "o", "m", "p", "l", "e", "t", "e", "n", "e", "s", "s">>
K_practical_knowledge == <<"p", "r", "a", "c", "t", "i", "c", "a", "l", "_", "k", "n", "o", "w", "l", "e", "d", "g", "e">>
K_communication == <<"c", "o", "m", "m", "u", "n", "i", "c", "a", "t", "i", "o", "n">>
K_total_score == <<"t", "o", "t", "a", "l", "_", "s", "c", "o", "r", "e">>
K_feedback == <<"f", "e", "e", "d", "b", "a", "c", "k">>
ANSWER_EVALUATED == <<"A", "n", "s", "w", "e", "r", " ", "e", "v", "a", "l", "u", "a", "t", "e", "d", ".">>

EVALUATE_TEMP == "0.2"

\* the fixed record of lines 236-243
evaluate_default ==
    JDict((K_technical_accuracy :> JNum(10)) @@ (K_completeness :> JNum(10))
          @@ (K_practical_knowledge :> JNum(10)) @@ (K_communication :> JNum(10))
          @@ (K_total_score :> JNum(40)) @@ (K_feedback :> JStr(ANSWER_EVALUATED)))

\* the mutant: a dict without a total_score is replaced by the default
evaluate_validating(decoded) ==
    LET checked(data) ==
            IF data.k = "dict" /\ K_total_score \in DOMAIN data.d THEN data
            ELSE evaluate_default
    IN  checked(extract_json(generate(decoded)))

\* evaluate(question, answer), given what the generation decodes to
evaluate(decoded) ==
    LET checked(data) == IF data.k = "dict" THEN data ELSE evaluate_default
    IN  checked(extract_json(generate(decoded)))

(* ------------------------------ gen_questions ------------------------- *)

K_id == <<"i", "d">>
K_question == <<"q", "u", "e", "s", "t", "i", "o", "n">>
K_focus == <<"f", "o", "c", "u", "s">>

DEFAULT_NUM == 5

Min(a, b) == IF a <= b THEN a ELSE b

\* q["id"] = i + 1 on a dict
SetId(q, i) == JDict((K_id :> JNum(i)) @@ q.d)

\* gen_questions(resume, num), given what the generation decodes to.  The
\* loop of lines 191-192 assigns q["id"] on every element before the slice;
\* on an element that is no dict the item assignment raises TypeError.
gen_questions(decoded, num) ==
    LET numbered(questions) ==
            IF questions.k = "list"
            THEN IF \E i \in 1..Len(questions.items) : questions.items[i].k # "dict"
                 THEN Raised("TypeError")
                 ELSE Returned(JList([i \in 1..Min(num, Len(questions.items)) |->
                                        SetId(questions.items[i], i)]))
            ELSE Returned(JList(<<>>))
    IN  numbered(extract_json(generate(decoded)))

(* ------------------------------ endpoints ----------------------------- *)

\* a handler's response; an exception that leaves the handler is answered
\* 500 by the framework
Response(status, body) == [status |-> status, body |-> body]
HTTP_OK == 200
HTTP_ERROR == 500
InternalServerError == [error |-> "Internal Server Error"]

\* POST /generate_questions: gen_questions(data.resume, num=5)
generate_questions_api(decoded) ==
    LET answered(questions) ==
            IF questions.kind = "raise" THEN Response(HTTP_ERROR, InternalServerError)
            ELSE Response(HTTP_OK, [questions |-> questions.v])
    IN  answered(gen_questions(decoded, DEFAULT_NUM))

(* ------------------------------ gen_followup -------------------------- *)

FOLLOWUP_MIN_LEN == 10
FOLLOWUP_MAX_TOKENS == 100
COULD_YOU_EXPLAIN == <<"C", "o", "u", "l", "d", " ", "y", "o", "u", " ", "e", "x", "p", "l", "a", "i", "n", " ", "m", "o", "r", "e", "?">>

\* the mutant: the comparison off by one
gen_followup_le(answer, decoded) ==
    IF Len(strip(answer)) <= FOLLOWUP_MIN_LEN
    THEN [v |-> COULD_YOU_EXPLAIN, calls |-> <<>>]
    ELSE [v |-> generate(decoded),
          calls |-> <<[max_tokens |-> FOLLOWUP_MAX_TOKENS, temp |-> DEFAULT_TEMP]>>]

\* gen_followup(question, answer), given what a generation would decode to:
\* the value returned and the generate() calls made
gen_followup(answer, decoded) ==
    IF Len(strip(answer)) < FOLLOWUP_MIN_LEN
    THEN [v |-> COULD_YOU_EXPLAIN, calls |-> <<>>]
    ELSE [v |-> generate(decoded),
          calls |-> <<[max_tokens |-> FOLLOWUP_MAX_TOKENS, temp |-> DEFAULT_TEMP]>>]

(* ------------------------------ extract_text_from_pdf ----------------- *)

RECURSIVE Concat(_)
Concat(ss) == IF ss = <<>> THEN <<>> ELSE Head(ss) \o Concat(Tail(ss))

\* What the two libraries make of the uploaded file.  lib.pages are the page
\* texts (<<>> for a page pdfplumber gives None or "" for); lib.failAt = 0:
\* opening raises; failAt = n <= Len(pages): reading page n raises;
\* failAt = Len(pages) + 1: nothing raises.  What was read before the
\* exception stays in text.
PagesRead(lib) ==
    IF lib.failAt = 0 THEN <<>>
    ELSE SubSeq(lib.pages, 1, Min(lib.failAt - 1, Len(lib.pages)))

\* lines 88-95: text += page.get_text()
FitzText(lib) == Concat(PagesRead(lib))

\* lines 97-105: if t: text += t + "\n"
PlumberText(lib) ==
    LET read == PagesRead(lib)
    IN  Concat([n \in 1..Len(read) |-> IF read[n] # <<>> THEN read[n] \o <<"\n">> ELSE <<>>])

extract_text_from_pdf(pdf) == strip(FitzText(pdf.fitz) \o PlumberText(pdf.plumber))

(* ------------------------------ extract_resume_basic ------------------ *)

LOWERCASE == <<"a", "b", "c", "d", "e", "f", "g", "h", "i", "j", "k", "l", "m", "n", "o", "p", "q", "r", "s", "t", "u", "v", "w", "x", "y", "z">>
UPPERCASE == <<"A", "B", "C", "D", "E", "F", "G", "H", "I", "J", "K", "L", "M", "N", "O", "P", "Q", "R", "S", "T", "U", "V", "W", "X", "Y", "Z">>

\* \w
WordChars ==
    {LOWERCASE[n] : n \in 1..Len(LOWERCASE)} \cup {UPPERCASE[n] : n \in 1..Len(UPPERCASE)}
        \cup Digits \cup {"_"}

\* str.lower()
lower(s) ==
    [i \in 1..Len(s) |->
        IF \E n \in 1..Len(UPPERCASE) : UPPERCASE[n] = s[i]
        THEN LOWERCASE[CHOOSE n \in 1..Len(UPPERCASE) : UPPERCASE[n] = s[i]]
        ELSE s[i]]

RECURSIVE RunEnd(_, _, _)
\* the last index of the longest run of chars of class that starts at i
\* (i - 1 when s[i] is not of the class)
RunEnd(s, i, class) ==
    IF i <= Len(s) /\ s[i] \in class THEN RunEnd(s, i + 1, class) ELSE i - 1

\* \b at the position before s[i]
IsBoundary(s, i) ==
    (i > 1 /\ s[i - 1] \in WordChars) # (i <= Len(s) /\ s[i] \in WordChars)

\* [\w.-]
EmailChars == WordChars \cup {".", "-"}

\* r'\b[\w.-]+@[\w.-]+\.\w+\b' tried at i: the text matched, <<>> when the
\* attempt fails.  [\w.-]+ must end at an "@"; after it the greedy [\w.-]+
\* gives back to the last "." that a \w follows, and \w+ runs to its end.
EmailMatchAt(s, i) ==
    LET a == RunEnd(s, i, EmailChars)
        b == RunEnd(s, a + 2, EmailChars)
        dots == {d \in (a + 3)..(b - 1) : s[d] = "." /\ s[d + 1] \in WordChars}
        d == CHOOSE x \in dots : \A y \in dots : y <= x
    IN  IF /\ IsBoundary(s, i)
           /\ a >= i
           /\ a + 1 <= Len(s)
           /\ s[a + 1] = "@"
           /\ dots # {}
        THEN SubSeq(s, i, RunEnd(s, d + 1, WordChars))
        ELSE <<>>

RECURSIVE SearchEmail(_, _)
\* re.search of the email pattern from i on: the leftmost match, <<>> when none
SearchEmail(s, i) ==
    IF i > Len(s) THEN <<>>
    ELSE IF EmailMatchAt(s, i) # <<>> THEN EmailMatchAt(s, i)
    ELSE SearchEmail(s, i + 1)

\* [0-9 \-\(\)]
PhoneChars == Digits \cup {" ", "-", "(", ")"}
PHONE_MIN_TAIL == 8

\* r'[\+\(]?[0-9][0-9 \-\(\)]{8,}' tried at i
PhoneMatchAt(s, i) ==
    LET first == IF s[i] \in {"+", "("} THEN i + 1 ELSE i
        last == RunEnd(s, first + 1, PhoneChars)
    IN  IF first <= Len(s) /\ s[first] \in Digits /\ last - first >= PHONE_MIN_TAIL
        THEN SubSeq(s, i, last)
        ELSE <<>>

RECURSIVE SearchPhone(_, _)
SearchPhone(s, i) ==
    IF i > Len(s) THEN <<>>
    ELSE IF PhoneMatchAt(s, i) # <<>> THEN PhoneMatchAt(s, i)
    ELSE SearchPhone(s, i + 1)

RECURSIVE split_newline(_, _, _)
\* text.split("\n"): the pieces between newlines, from index i on, the
\* current piece starting at index from
split_newline(s, from, i) ==
    IF i > Len(s) THEN <<SubSeq(s, from, Len(s))>>
    ELSE IF s[i] = "\n" THEN <<SubSeq(s, from, i - 1)>> \o split_newline(s, i + 1, i + 1)
    ELSE split_newline(s, from, i + 1)

NonEmpty(s) == s # <<>>

\* [l.strip() for l in text.split("\n") if l.strip()]
StrippedLines(text) ==
    LET pieces == split_newline(text, 1, 1)
    IN  SelectSeq([n \in 1..Len(pieces) |-> strip(pieces[n])], NonEmpty)

\* len(line.split())
WordCount(line) ==
    Cardinality({i \in 1..Len(line) :
                    line[i] \notin Whitespace /\ (i = 1 \/ line[i - 1] \in Whitespace)})

NAME_LINES == 5
NAME_MAX_WORDS == 4
UNKNOWN == <<"U", "n", "k", "n", "o", "w", "n">>

\* lines 128-132
GuessName(text) ==
    LET lines == StrippedLines(text)
        short == {n \in 1..Min(NAME_LINES, Len(lines)) : WordCount(lines[n]) <= NAME_MAX_WORDS}
    IN  IF short = {} THEN UNKNOWN
        ELSE lines[CHOOSE n \in short : \A m \in short : n <= m]

\* skills_list, and s.title() of each entry
skills_list == <<
    <<"p", "y", "t", "h", "o", "n">>,
    <<"j", "a", "v", "a">>,
    <<"j", "a", "v", "a", "s", "c", "r", "i", "p", "t">>,
    <<"r", "e", "a", "c", "t">>,
    <<"s", "q", "l">>,
    <<"a", "w", "s">>,
    <<"d", "o", "c", "k", "e", "r">>,
    <<"m", "a", "c", "h", "i", "n", "e", " ", "l", "e", "a", "r", "n", "i", "n", "g">>,
    <<"d", "e", "e", "p", " ", "l", "e", "a", "r", "n", "i", "n", "g">>,
    <<"n", "l", "p">> >>

\* str.title(): the first letter of each word upper-cased (the entries are
\* lower-case letters and spaces)
title(s) ==
    [i \in 1..Len(s) |->
        IF s[i] # " " /\ (i = 1 \/ s[i - 1] = " ")
        THEN UPPERCASE[CHOOSE n \in 1..Len(LOWERCASE) : LOWERCASE[n] = s[i]]
        ELSE s[i]]

Contains(s, sub) == find(s, sub, 1) # 0

\* [s.title() for s in skills_list if s in text_lower]
MatchSkills(text) ==
    LET text_lower == lower(text)
        hit(skill) == Contains(text_lower, skill)
        found == SelectSeq(skills_list, hit)
    IN  [n \in 1..Len(found) |-> JStr(title(found[n]))]

K_name == <<"n", "a", "m", "e">>
K_email == <<"e", "m", "a", "i", "l">>
K_phone == <<"p", "h", "o", "n", "e">>
K_skills == <<"s", "k", "i", "l", "l", "s">>
K_experience == <<"e", "x", "p", "e", "r", "i", "e", "n", "c", "e">>
K_projects == <<"p", "r", "o", "j", "e", "c", "t", "s">>

extract_resume_basic(text) ==
    JDict((K_name :> JStr(GuessName(text)))
          @@ (K_email :> JStr(SearchEmail(text, 1)))
          @@ (K_phone :> JStr(SearchPhone(text, 1)))
          @@ (K_skills :> JList(MatchSkills(text)))
          @@ (K_experience :> JList(<<>>))
          @@ (K_projects :> JList(<<>>)))

(* ------------------------------ extract_resume ------------------------ *)

MIN_TEXT_LEN == 30
RESUME_TEMP == "0.1"
COULD_NOT_EXTRACT == <<"C", "o", "u", "l", "d", " ", "n", "o", "t", " ", "e", "x", "t", "r", "a", "c", "t", " ", "t", "e", "x", "t", " ", "f", "r", "o", "m", " ", "r", "e", "s", "u", "m", "e">>

\* dict.get(key): None when the key is absent
Get(data, key) == IF key \in DOMAIN data.d THEN data.d[key] ELSE JNull

ResumeCall == <<[max_tokens |-> DEFAULT_MAX_TOKENS, temp |-> RESUME_TEMP]>>

\* the mutant: only the emptiness of the text is checked
extract_resume_nolen(pdf, decoded) ==
    LET parsed(text, data) ==
            IF text = <<>>
            THEN [out |-> Raised(COULD_NOT_EXTRACT), calls |-> <<>>]
            ELSE IF data.k = "dict" /\ Truthy(Get(data, K_name))
            THEN [out |-> Returned(data), calls |-> ResumeCall]
            ELSE [out |-> Returned(extract_resume_basic(text)), calls |-> ResumeCall]
    IN  parsed(extract_text_from_pdf(pdf), extract_json(generate(decoded)))

\* the mutant: any dict the model gives is returned
extract_resume_noname(pdf, decoded) ==
    LET parsed(text, data) ==
            IF text = <<>> \/ Len(text) < MIN_TEXT_LEN
            THEN [out |-> Raised(COULD_NOT_EXTRACT), calls |-> <<>>]
            ELSE IF data.k = "dict"
            THEN [out |-> Returned(data), calls |-> ResumeCall]
            ELSE [out |-> Returned(extract_resume_basic(text)), calls |-> ResumeCall]
    IN  parsed(extract_text_from_pdf(pdf), extract_json(generate(decoded)))

\* extract_resume(pdf_file), given what the libraries read and what the
\* generation decodes to: the outcome (a ValueError carries its message) and
\* the generate() calls made
extract_resume(pdf, decoded) ==
    LET parsed(text, data) ==
            IF text = <<>> \/ Len(text) < MIN_TEXT_LEN
            THEN [out |-> Raised(COULD_NOT_EXTRACT), calls |-> <<>>]
            ELSE IF data.k = "dict" /\ Truthy(Get(data, K_name))
            THEN [out |-> Returned(data), calls |-> ResumeCall]
            ELSE [out |-> Returned(extract_resume_basic(text)), calls |-> ResumeCall]
    IN  parsed(extract_text_from_pdf(pdf), extract_json(generate(decoded)))

\* POST /upload_resume: lines 275-281
upload_resume(pdf, decoded) ==
    LET answered(r) ==
            [resp |-> IF r.out.kind = "raise"
                      THEN Response(HTTP_ERROR, [error |-> r.out.exc])
                      ELSE Response(HTTP_OK, [resume |-> r.out.v]),
             calls |-> r.calls]
    IN  answered(extract_resume(pdf, decoded))

(* ------------------------------ final_report -------------------------- *)

K_overall_score == <<"o", "v", "e", "r", "a", "l", "l", "_", "s", "c", "o", "r", "e">>
K_performance_level == <<"p", "e", "r", "f", "o", "r", "m", "a", "n", "c", "e", "_", "l", "e", "v", "e", "l">>
K_total_questions == <<"t", "o", "t", "a", "l", "_", "q", "u", "e", "s", "t", "i", "o", "n", "s">>
NO_ANSWERS == <<"N", "o", " ", "a", "n", "s", "w", "e", "r", "s">>
EXCELLENT == <<"E", "x", "c", "e", "l", "l", "e", "n", "t">>
GOOD == <<"G", "o", "o", "d">>
AVERAGE == <<"A", "v", "e", "r", "a", "g", "e">>
EXCELLENT_MIN == 80
GOOD_MIN == 60

\* a float with two decimals, kept as its number of hundredths
JHundredths(h) == [k |-> "float", x100 |-> h]

RECURSIVE SumTotals(_, _)
\* sum(e["total_score"] for e in evaluations), from acc on: the subscript
\* raises TypeError on what is no dict and KeyError on a dict without the
\* key; the addition raises TypeError on what is no number
SumTotals(evals, acc) ==
    IF evals = <<>> THEN Returned(acc)
    ELSE LET e == Head(evals)
         IN  IF e.k # "dict" THEN Raised("TypeError")
             ELSE IF K_total_score \notin DOMAIN e.d THEN Raised("KeyError")
             ELSE IF e.d[K_total_score].k = "num"
             THEN SumTotals(Tail(evals), acc + e.d[K_total_score].n)
             ELSE IF e.d[K_total_score].k = "bool"
             THEN SumTotals(Tail(evals), acc + (IF e.d[K_total_score].b THEN 1 ELSE 0))
             ELSE Raised("TypeError")

\* round(s / n, 2) in hundredths, for s >= 0 and n > 0: to the nearest
\* hundredth, a tie to the even one.  (A tie of s / n with n < 40 is a
\* multiple of 1/8, which the float holds exactly.)
Round2(s, n) ==
    LET q == (100 * s) \div n
        r == (100 * s) % n
    IN  IF 2 * r < n THEN q
        ELSE IF 2 * r > n THEN q + 1
        ELSE IF q % 2 = 0 THEN q ELSE q + 1

\* the mutant: the thresholds strict
final_report_strict(evaluations) ==
    IF evaluations = <<>>
    THEN Returned(JDict((K_overall_score :> JNum(0)) @@ (K_performance_level :> JStr(NO_ANSWERS))))
    ELSE LET level(total, n) == IF total > EXCELLENT_MIN * n THEN EXCELLENT
                                ELSE IF total > GOOD_MIN * n THEN GOOD
                                ELSE AVERAGE
             report(total, n) ==
                 IF total.kind = "raise" THEN total
                 ELSE Returned(JDict((K_overall_score :> JHundredths(Round2(total.v, n)))
                                     @@ (K_performance_level :> JStr(level(total.v, n)))
                                     @@ (K_total_questions :> JNum(n))))
         IN  report(SumTotals(evaluations, 0), Len(evaluations))

\* final_report(evaluations); avg >= 80 is total >= 80 * n
final_report(evaluations) ==
    IF evaluations = <<>>
    THEN Returned(JDict((K_overall_score :> JNum(0)) @@ (K_performance_level :> JStr(NO_ANSWERS))))
    ELSE LET level(total, n) == IF total >= EXCELLENT_MIN * n THEN EXCELLENT
                                ELSE IF total >= GOOD_MIN * n THEN GOOD
                                ELSE AVERAGE
             report(total, n) ==
                 IF total.kind = "raise" THEN total
                 ELSE Returned(JDict((K_overall_score :> JHundredths(Round2(total.v, n)))
                                     @@ (K_performance_level :> JStr(level(total.v, n)))
                                     @@ (K_total_questions :> JNum(n))))
         IN  report(SumTotals(evaluations, 0), Len(evaluations))

\* POST /final_report
final_report_api(evaluations) ==
    LET answered(report) ==
            IF report.kind = "raise" THEN Response(HTTP_ERROR, InternalServerError)
            ELSE Response(HTTP_OK, report.v)
    IN  answered(final_report(evaluations))

\* POST /answer: the followup first, then the evaluation, each given what
\* its generation decodes to
answer_api(answer, decoded_followup, decoded_evaluate) ==
    LET answered(followup, evaluation) ==
            [resp |-> Response(HTTP_OK, [followup |-> followup.v,
                                         evaluation |-> evaluation]),
             calls |-> followup.calls
                       \o <<[max_tokens |-> DEFAULT_MAX_TOKENS, temp |-> EVALUATE_TEMP]>>]
    IN  answered(gen_followup(answer, decoded_followup), evaluate(decoded_evaluate))

(* ------------------------- bounded input texts ------------------------ *)

RECURSIVE TextsUpTo(_, _)
\* every concatenation of at most n fragments of V
TextsUpTo(V, n) ==
    IF n = 0 THEN {<<>>}
    ELSE LET P == TextsUpTo(V, n - 1) IN P \cup {t \o f : t \in P, f \in V}

MaxFrags == 4

PAIR == <<"\"", "t", "o", "t", "a", "l", "_", "s", "c", "o", "r", "e", "\"", ":", " ", "1">>
PROSE == <<"n", "u", "l", "l", " ">>
FLAT == <<"{">> \o PAIR \o <<"}">>

JsonFragments ==
    {<<"{">>, <<"}">>, <<"[">>, <<"]">>, <<",">>, <<"\"">>, <<"1">>, PAIR, PROSE, FLAT}

JsonTexts == TextsUpTo(JsonFragments, MaxFrags)

(* ---------------- extract_json and evaluate on every text ------------- *)

InitJson ==
    /\ call \in [fn : {"extract_json", "evaluate"}, text : JsonTexts]
    /\ ret = Pending
    /\ genlog = <<>>
    /\ collected = <<>>
    /\ requests = <<>>
    /\ loop = 0

CallExtractJson ==
    /\ call.fn = "extract_json"
    /\ ret = Pending
    /\ ret' = Returned(extract_json(call.text))
    /\ UNCHANGED <<call, genlog, collected, requests, loop>>

CallEvaluate ==
    /\ call.fn = "evaluate"
    /\ ret = Pending
    /\ ret' = Returned(evaluate(call.text))
    /\ genlog' = Append(genlog, [max_tokens |-> DEFAULT_MAX_TOKENS, temp |-> EVALUATE_TEMP])
    /\ UNCHANGED <<call, collected, requests, loop>>

NextJson == CallExtractJson \/ CallEvaluate

SpecJson == InitJson /\ [][NextJson]_vars

\* the region from the first open to the first close after it, stated on
\* the indices: <<>> when the text holds no such pair
FirstRegion(text, open, close) ==
    LET opens == {i \in 1..Len(text) : text[i] = open}
        i == CHOOSE a \in opens : \A b \in opens : a <= b
        closes == {j \in 1..Len(text) : text[j] = close /\ j > i}
        j == CHOOSE a \in closes : \A b \in closes : a <= b
    IN  IF opens = {} THEN <<>>
        ELSE IF closes = {} THEN <<>>
        ELSE [n \in 1..(j - i + 1) |-> text[i + n - 1]]

Occurs(text, chars) == \E i \in 1..Len(text) : text[i] \in chars

FlatValue == JDict(K_total_score :> JNum(1))

\* C8: extract_json never raises; it returns the parsed first non-greedy
\* {...} region if that parses, otherwise the parsed first non-greedy [...]
\* region if that parses, otherwise None.  A flat object with prose around
\* it is returned as that object; a text with no closing brace or bracket
\* (an unterminated object) gives None.
C8_ExtractJsonFirstRegions ==
    (call.fn = "extract_json" /\ ret # Pending)
    => LET obj == FirstRegion(call.text, "{", "}")
           arr == FirstRegion(call.text, "[", "]")
           at == find(call.text, FLAT, 1)
       IN  /\ ret.kind = "value"
           /\ ret.v = IF obj # <<>> /\ json_loads(obj).ok THEN json_loads(obj).v
                      ELSE IF arr # <<>> /\ json_loads(arr).ok THEN json_loads(arr).v
                      ELSE JNull
           /\ (/\ at # 0
               /\ ~Occurs(SubSeq(call.text, 1, at - 1), {"{", "}"})
               /\ ~Occurs(SubSeq(call.text, at + Len(FLAT), Len(call.text)), {"{", "}"}))
              => ret.v = FlatValue
           /\ ~Occurs(call.text, {"}", "]"}) => ret.v = JNull

\* extract_json has fallen back from an object region that does not parse
\* to the array region, and returned the list
C8_Witness ==
    /\ call.fn = "extract_json"
    /\ call.text = <<"{", "[">> \o FLAT \o <<"]">>
    /\ ret = Returned(JList(<<FlatValue>>))

\* C10: evaluate always returns a dict: the dict extracted from the
\* completion, unchanged, or else the fixed default (sub-scores 10, total 40,
\* feedback "Answer evaluated.").
C10_EvaluateDictOrDefault ==
    (call.fn = "evaluate" /\ ret # Pending)
    => LET data == extract_json(generate(call.text))
       IN  /\ ret.kind = "value"
           /\ ret.v.k = "dict"
           /\ data.k = "dict" => ret.v = data
           /\ data.k # "dict" =>
                 /\ DOMAIN ret.v.d = {K_technical_accuracy, K_completeness,
                                      K_practical_knowledge, K_communication,
                                      K_total_score, K_feedback}
                 /\ \A key \in {K_technical_accuracy, K_completeness,
                                K_practical_knowledge, K_communication} :
                       ret.v.d[key] = JNum(10)
                 /\ ret.v.d[K_total_score] = JNum(40)
                 /\ ret.v.d[K_feedback] = JStr(ANSWER_EVALUATED)

\* evaluate has returned, unchanged, a dict that has no sub-score at all
C10_Witness ==
    /\ call.fn = "evaluate"
    /\ call.text = PROSE \o <<"{", "}">>
    /\ ret = Returned(JDict(<<>>))

(* -------------------- gen_questions on every text --------------------- *)

MaxQFrags == 5
MaxNum == 2

QOBJ == <<"{", "\"", "i", "d", "\"", ":", "7", ",", "\"", "q", "u", "e", "s", "t", "i", "o", "n", "\"", ":", "\"", "q", "\"", ",", "\"", "f", "o", "c", "u", "s", "\"", ":", "\"", "f", "\"", "}">>

QuestionFragments == {<<"[">>, <<"]">>, <<",">>, <<"{">>, <<"}">>, <<"1">>, QOBJ}

QuestionTexts == TextsUpTo(QuestionFragments, MaxQFrags)

InitQuestions ==
    /\ call \in [fn : {"gen_questions"}, text : QuestionTexts, num : 0..MaxNum]
              \cup [fn : {"generate_questions_api"}, text : QuestionTexts, num : {DEFAULT_NUM}]
    /\ ret = Pending
    /\ genlog = <<>>
    /\ collected = <<>>
    /\ requests = <<>>
    /\ loop = 0

CallGenQuestions ==
    /\ call.fn = "gen_questions"
    /\ ret = Pending
    /\ ret' = gen_questions(call.text, call.num)
    /\ genlog' = Append(genlog, [max_tokens |-> DEFAULT_MAX_TOKENS, temp |-> DEFAULT_TEMP])
    /\ UNCHANGED <<call, collected, requests, loop>>

CallGenerateQuestionsApi ==
    /\ call.fn = "generate_questions_api"
    /\ ret = Pending
    /\ ret' = Returned(generate_questions_api(call.text))
    /\ genlog' = Append(genlog, [max_tokens |-> DEFAULT_MAX_TOKENS, temp |-> DEFAULT_TEMP])
    /\ UNCHANGED <<call, collected, requests, loop>>

NextQuestions == CallGenQuestions \/ CallGenerateQuestionsApi

SpecQuestions == InitQuestions /\ [][NextQuestions]_vars

\* the completion is a well-formed JSON array of k >= 1 question objects
IsQuestionArray(text) ==
    LET p == json_loads(text)
    IN  /\ p.ok
        /\ p.v.k = "list"
        /\ Len(p.v.items) >= 1
        /\ \A i \in 1..Len(p.v.items) :
              /\ p.v.items[i].k = "dict"
              /\ {K_id, K_question, K_focus} \subseteq DOMAIN p.v.items[i].d

\* C2: when the completion is a well-formed JSON array of k >= 1 question
\* objects, gen_questions(resume, num) returns the first min(k, num) of them,
\* in order (question and focus as the model gave them).
C2_QuestionArrayReturned ==
    (call.fn = "gen_questions" /\ ret # Pending /\ IsQuestionArray(generate(call.text)))
    => LET given == json_loads(generate(call.text)).v.items
       IN  /\ ret.kind = "value"
           /\ ret.v.k = "list"
           /\ Len(ret.v.items) = Min(Len(given), call.num)
           /\ \A i \in 1..Len(ret.v.items) :
                 /\ ret.v.items[i].d[K_question] = given[i].d[K_question]
                 /\ ret.v.items[i].d[K_focus] = given[i].d[K_focus]

\* C3: for every completion and every num >= 0, gen_questions returns,
\* without raising, a list of at most num items whose item at 0-based
\* position i has id = i + 1.
C3_AtMostNumPositionalIds ==
    (call.fn = "gen_questions" /\ ret # Pending)
    => /\ ret.kind = "value"
       /\ ret.v.k = "list"
       /\ Len(ret.v.items) <= call.num
       /\ \A i \in 1..Len(ret.v.items) :
             /\ ret.v.items[i].k = "dict"
             /\ K_id \in DOMAIN ret.v.items[i].d
             /\ ret.v.items[i].d[K_id] = JNum(i)

(* ---------------------- upload_resume on every file ------------------- *)

MaxPages == 1

PAGE_CONTACT == <<"A", "n", "n", " ", "L", "e", "e", "\n", "a", "n", "n", "@", "x", ".", "i", "o", "\n", "+", "1", " ", "5", "5", "5", " ", "0", "1", "0", "0", "0">>
PAGE_NUMBER == <<"2">>
PAGE_SUMMARY == <<"I", " ", "b", "u", "i", "l", "d", " ", "P", "y", "t", "h", "o", "n", " ", "a", "n", "d", " ", "J", "a", "v", "a", " ", "a", "p", "p", "s", "\n">>
PAGE_BLANK == <<" ", "\n">>

PageTexts == {PAGE_CONTACT, PAGE_NUMBER, PAGE_SUMMARY, PAGE_BLANK}

\* what a library may make of a file: up to MaxPages pages, and where it raises
LibraryReads(texts) ==
    UNION {[pages : [1..n -> texts], failAt : 0..(n + 1)] : n \in 0..MaxPages}

Pdfs == [fitz : LibraryReads(PageTexts), plumber : LibraryReads(PageTexts \cup {<<>>})]

ResumeCompletions == {
    <<>>,
    <<"{", "\"", "n", "a", "m", "e", "\"", ":", "\"", "A", "n", "n", "\"", "}">>,
    <<"{", "\"", "n", "a", "m", "e", "\"", ":", "\"", "\"", "}">>,
    <<"{", "\"", "n", "a", "m", "e", "\"", ":", "7", "}">>,
    <<"{", "\"", "e", "m", "a", "i", "l", "\"", ":", "\"", "a", "@", "b", ".", "c", "\"", "}">>,
    <<"[", "\"", "A", "n", "n", "\"", "]">> }

InitResume ==
    /\ call \in [fn : {"upload_resume"}, pdf : Pdfs, text : ResumeCompletions]
    /\ ret = Pending
    /\ genlog = <<>>
    /\ collected = <<>>
    /\ requests = <<>>
    /\ loop = 0

CallUploadResume ==
    /\ call.fn = "upload_resume"
    /\ ret = Pending
    /\ LET done(r) == /\ ret' = Returned(r.resp)
                       /\ genlog' = genlog \o r.calls
       IN  done(upload_resume(call.pdf, call.text))
    /\ UNCHANGED <<call, collected, requests, loop>>

NextResume == CallUploadResume

SpecResume == InitResume /\ [][NextResume]_vars

\* the number of characters from the first to the last character of s that
\* is no whitespace
TrimmedLen(s) ==
    LET solid == {i \in 1..Len(s) : s[i] \notin Whitespace}
        lo == CHOOSE i \in solid : \A j \in solid : i <= j
        hi == CHOOSE i \in solid : \A j \in solid : j <= i
    IN  IF solid = {} THEN 0 ELSE hi - lo + 1

\* both extraction attempts, concatenated
RawText(pdf) == FitzText(pdf.fitz) \o PlumberText(pdf.plumber)

\* C1: whenever the stripped concatenation of both extraction attempts is
\* empty or shorter than 30 characters, /upload_resume answers 500 with
\* {error: "Could not extract text from resume"}, never a {resume: ...}
\* body, and no generation is made.
C1_ShortTextRejected ==
    (call.fn = "upload_resume" /\ ret # Pending /\ TrimmedLen(RawText(call.pdf)) < 30)
    => /\ ret.kind = "value"
       /\ ret.v.status = 500
       /\ DOMAIN ret.v.body = {"error"}
       /\ ret.v.body.error = COULD_NOT_EXTRACT
       /\ genlog = <<>>

\* a file whose text is 29 characters once stripped has been refused
C1_Witness ==
    /\ call.fn = "upload_resume"
    /\ TrimmedLen(RawText(call.pdf)) = 29
    /\ Len(RawText(call.pdf)) >= 30
    /\ ret = Returned([status |-> 500, body |-> [error |-> COULD_NOT_EXTRACT]])

SKILL_TITLES == <<
    <<"P", "y", "t", "h", "o", "n">>,
    <<"J", "a", "v", "a">>,
    <<"J", "a", "v", "a", "s", "c", "r", "i", "p", "t">>,
    <<"R", "e", "a", "c", "t">>,
    <<"S", "q", "l">>,
    <<"A", "w", "s">>,
    <<"D", "o", "c", "k", "e", "r">>,
    <<"M", "a", "c", "h", "i", "n", "e", " ", "L", "e", "a", "r", "n", "i", "n", "g">>,
    <<"D", "e", "e", "p", " ", "L", "e", "a", "r", "n", "i", "n", "g">>,
    <<"N", "l", "p">> >>

ANN_EMAIL == <<"a", "n", "n", "@", "x", ".", "i", "o">>
ANN_PHONE == <<"+", "1", " ", "5", "5", "5", " ", "0", "1", "0", "0", "0">>
ANN_LEE == <<"A", "n", "n", " ", "L", "e", "e">>

\* the name is the first of the first five non-empty lines that has at most
\* four words, "Unknown" when there is none
NameIsFirstShortLine(text, name) ==
    LET lines == StrippedLines(text)
        first == 1..Min(5, Len(lines))
    IN  \/ name = UNKNOWN /\ \A n \in first : WordCount(lines[n]) > 4
        \/ \E n \in first :
              /\ lines[n] = name
              /\ WordCount(name) <= 4
              /\ \A m \in 1..(n - 1) : WordCount(lines[m]) > 4

\* the email is a piece of the text of the shape x@y.z, and the address of
\* the contact page when the text holds it; empty when the text has no "@"
EmailIsAMatch(text, email) ==
    LET ats == {i \in 1..Len(email) : email[i] = "@"}
        at == CHOOSE i \in ats : TRUE
    IN  /\ email # <<>> =>
              /\ Contains(text, email)
              /\ Cardinality(ats) = 1
              /\ \A i \in 1..Len(email) : i # at => email[i] \in EmailChars
              /\ at > 1
              /\ \E d \in (at + 2)..(Len(email) - 1) : email[d] = "."
              /\ email[Len(email)] \in WordChars
        /\ ~Occurs(text, {"@"}) => email = <<>>
        /\ Contains(text, ANN_EMAIL) => email = ANN_EMAIL

\* the phone is a piece of the text: an optional "+" or "(", a digit, and at
\* least eight more digits, blanks, dashes or parentheses; it starts with the
\* number of the contact page when the text starts with that page
PhoneIsAMatch(text, phone) ==
    LET first == IF phone[1] \in {"+", "("} THEN 2 ELSE 1
    IN  /\ phone # <<>> =>
              /\ Contains(text, phone)
              /\ Len(phone) >= first + 8
              /\ phone[first] \in Digits
              /\ \A i \in (first + 1)..Len(phone) : phone[i] \in PhoneChars
        /\ ~Occurs(text, Digits) => phone = <<>>
        /\ StartsAt(text, PAGE_CONTACT, 1) => StartsAt(phone, ANN_PHONE, 1)

\* the skills are the titles of the keywords the lower-cased text holds, in
\* the order of the keyword list
SkillsAreKeywords(text, skills) ==
    /\ \A n \in 1..Len(skills_list) :
          Contains(lower(text), skills_list[n])
          <=> \E i \in 1..Len(skills) : skills[i] = JStr(SKILL_TITLES[n])
    /\ \A i \in 1..Len(skills) : \E n \in 1..Len(SKILL_TITLES) :
          /\ skills[i] = JStr(SKILL_TITLES[n])
          /\ \A j \in 1..(i - 1) : \E m \in 1..(n - 1) : skills[j] = JStr(SKILL_TITLES[m])

\* C9: given extracted text of at least 30 characters, /upload_resume
\* returns a resume record for every completion: the model's parsed JSON
\* when it is a dict with a non-empty name, and otherwise the fallback
\* record computed from the text; the record's name is never empty.
C9_ResumeRecordAlways ==
    (call.fn = "upload_resume" /\ ret # Pending /\ TrimmedLen(RawText(call.pdf)) >= 30)
    => LET text == extract_text_from_pdf(call.pdf)
           data == extract_json(generate(call.text))
           usable == /\ data.k = "dict"
                     /\ K_name \in DOMAIN data.d
                     /\ Truthy(data.d[K_name])
           resume == ret.v.body.resume
       IN  /\ ret.kind = "value"
           /\ ret.v.status = 200
           /\ DOMAIN ret.v.body = {"resume"}
           /\ resume.k = "dict"
           /\ K_name \in DOMAIN resume.d
           /\ resume.d[K_name] \notin {JNull, JStr(<<>>)}
           /\ usable => resume = data
           /\ ~usable =>
                 /\ DOMAIN resume.d = {K_name, K_email, K_phone, K_skills,
                                       K_experience, K_projects}
                 /\ resume.d[K_name].k = "str"
                 /\ NameIsFirstShortLine(text, resume.d[K_name].s)
                 /\ EmailIsAMatch(text, resume.d[K_email].s)
                 /\ PhoneIsAMatch(text, resume.d[K_phone].s)
                 /\ SkillsAreKeywords(text, resume.d[K_skills].items)
                 /\ resume.d[K_experience] = JList(<<>>)
                 /\ resume.d[K_projects] = JList(<<>>)

\* the model gave a dict with an empty name for a text of exactly 30
\* characters, and the fallback record was returned
C9_Witness ==
    /\ call.fn = "upload_resume"
    /\ Len(extract_text_from_pdf(call.pdf)) = 30
    /\ call.text = <<"{", "\"", "n", "a", "m", "e", "\"", ":", "\"", "\"", "}">>
    /\ ret.kind = "value"
    /\ ret.v.status = 200
    /\ ret.v.body.resume.d[K_name] = JStr(ANN_LEE)
    /\ ret.v.body.resume.d[K_email] = JStr(ANN_EMAIL)
    /\ genlog = <<[max_tokens |-> 800, temp |-> "0.1"]>>

(* --------------------- gen_followup on every answer ------------------- *)

MaxAnswerLen == 11
MaxPad == 1

\* n characters of whitespace
Pad(n) == [i \in 1..n |-> IF i % 2 = 1 THEN " " ELSE "\n"]
\* an answer of n characters that starts and ends with a letter
Body(n) == [i \in 1..n |-> IF i \in {1, n} THEN "a" ELSE IF i % 3 = 0 THEN " " ELSE "b"]

Answers == {Pad(l) \o Body(n) \o Pad(t) : n \in 0..MaxAnswerLen, l \in 0..MaxPad, t \in 0..MaxPad}

WHY == <<"W", "h", "y", "?", " ">>

FollowupDecodeds == TextsUpTo({WHY, ASSISTANT_MARKER, <<"\n">>}, MaxFrags)

InitFollowup ==
    /\ call \in [fn : {"gen_followup"}, answer : Answers, text : FollowupDecodeds]
    /\ ret = Pending
    /\ genlog = <<>>
    /\ collected = <<>>
    /\ requests = <<>>
    /\ loop = 0

CallGenFollowup ==
    /\ call.fn = "gen_followup"
    /\ ret = Pending
    /\ LET done(r) == /\ ret' = Returned(r.v)
                       /\ genlog' = genlog \o r.calls
       IN  done(gen_followup(call.answer, call.text))
    /\ UNCHANGED <<call, collected, requests, loop>>

NextFollowup == CallGenFollowup

SpecFollowup == InitFollowup /\ [][NextFollowup]_vars

\* what is left of the decoded text: the part after the last marker, without
\* the whitespace around it
AfterLastMarker(decoded, completion) ==
    LET starts == {i \in 1..Len(decoded) : StartsAt(decoded, ASSISTANT_MARKER, i)}
        last == CHOOSE i \in starts : \A j \in starts : j <= i
        from == IF starts = {} THEN 1 ELSE last + 13
        rest == [n \in 1..(Len(decoded) - from + 1) |-> decoded[from + n - 1]]
    IN  /\ Len(completion) = TrimmedLen(rest)
        /\ completion # <<>> => completion[1] \notin Whitespace
        /\ Contains(rest, completion)

\* C6: with an answer whose trimmed length is less than 10, gen_followup
\* returns "Could you explain more?" and makes no generation call; with 10
\* or more it makes exactly one, capped at 100 new tokens, and returns its
\* completion.
C6_FollowupShortCircuit ==
    (call.fn = "gen_followup" /\ ret # Pending)
    => /\ ret.kind = "value"
       /\ TrimmedLen(call.answer) < 10 =>
             /\ ret.v = COULD_YOU_EXPLAIN
             /\ genlog = <<>>
       /\ TrimmedLen(call.answer) >= 10 =>
             /\ Len(genlog) = 1
             /\ genlog[1].max_tokens = 100
             /\ AfterLastMarker(call.text, ret.v)

\* an answer of 10 or more characters, 9 of them once trimmed, got the
\* literal without a generation
C6_Witness ==
    /\ call.fn = "gen_followup"
    /\ Len(call.answer) >= 10
    /\ TrimmedLen(call.answer) = 9
    /\ ret = Returned(COULD_YOU_EXPLAIN)
    /\ genlog = <<>>

(* -------------------- final_report on every score list ---------------- *)

MaxEvals == 8

Scores == {59, 60, 79, 80}

ScoreRecord(n) == JDict(K_total_score :> JNum(n))

EvaluationLists == UNION {[1..n -> {ScoreRecord(x) : x \in Scores}] : n \in 0..MaxEvals}

InitReport ==
    /\ call \in [fn : {"final_report"}, evaluations : EvaluationLists]
    /\ ret = Pending
    /\ genlog = <<>>
    /\ collected = <<>>
    /\ requests = <<>>
    /\ loop = 0

CallFinalReport ==
    /\ call.fn = "final_report"
    /\ ret = Pending
    /\ ret' = final_report(call.evaluations)
    /\ UNCHANGED <<call, genlog, collected, requests, loop>>

NextReport == CallFinalReport

SpecReport == InitReport /\ [][NextReport]_vars

\* the sum of the total_score values of the list
TotalOf(evals) ==
    LET upto[i \in 0..Len(evals)] ==
            IF i = 0 THEN 0 ELSE upto[i - 1] + evals[i].d[K_total_score].n
    IN  upto[Len(evals)]

Abs(x) == IF x < 0 THEN -x ELSE x

\* C7: final_report([]) is overall_score 0 with the level "No answers"; on
\* N >= 1 evaluations whose totals sum to S it gives overall_score =
\* round(S/N, 2) (the nearest hundredth, the even one on a tie),
\* total_questions = N, and the level "Excellent" if S/N >= 80, "Good" if
\* 60 <= S/N < 80, "Average" if S/N < 60.
C7_FinalReportReference ==
    (call.fn = "final_report" /\ ret # Pending)
    => LET N == Len(call.evaluations)
           S == TotalOf(call.evaluations)
           h == ret.v.d[K_overall_score].x100
       IN  /\ ret.kind = "value"
           /\ ret.v.k = "dict"
           /\ N = 0 =>
                 /\ DOMAIN ret.v.d = {K_overall_score, K_performance_level}
                 /\ ret.v.d[K_overall_score] = JNum(0)
                 /\ ret.v.d[K_performance_level] = JStr(NO_ANSWERS)
           /\ N >= 1 =>
                 /\ DOMAIN ret.v.d = {K_overall_score, K_performance_level, K_total_questions}
                 /\ ret.v.d[K_total_questions] = JNum(N)
                 /\ 2 * Abs(100 * S - h * N) <= N
                 /\ 2 * Abs(100 * S - h * N) = N => h % 2 = 0
                 /\ S >= 80 * N => ret.v.d[K_performance_level] = JStr(EXCELLENT)
                 /\ (60 * N <= S /\ S < 80 * N) => ret.v.d[K_performance_level] = JStr(GOOD)
                 /\ S < 60 * N => ret.v.d[K_performance_level] = JStr(AVERAGE)
           /\ call.evaluations = <<ScoreRecord(80)>> =>
                 ret.v.d[K_performance_level] = JStr(EXCELLENT) /\ h = 8000
           /\ call.evaluations = <<ScoreRecord(79)>> =>
                 ret.v.d[K_performance_level] = JStr(GOOD) /\ h = 7900
           /\ call.evaluations = <<ScoreRecord(60)>> =>
                 ret.v.d[K_performance_level] = JStr(GOOD) /\ h = 6000
           /\ call.evaluations = <<ScoreRecord(59)>> =>
                 ret.v.d[K_performance_level] = JStr(AVERAGE) /\ h = 5900

\* eight evaluations summing to 639: the average 79.875 is just below 80, so
\* "Good", and lies midway between two hundredths, so rounded to the even
\* one, 79.88
C7_Witness ==
    /\ call.fn = "final_report"
    /\ Len(call.evaluations) = 8
    /\ TotalOf(call.evaluations) = 639
    /\ ret.kind = "value"
    /\ ret.v.d[K_overall_score] = JHundredths(7988)
    /\ ret.v.d[K_performance_level] = JStr(GOOD)
    /\ ret.v.d[K_total_questions] = JNum(8)

(* ------------------- a client's answers, then the report -------------- *)

MaxAnswers == 2

SCORE_TEXT == <<"{", "\"", "t", "o", "t", "a", "l", "_", "s", "c", "o", "r", "e", "\"", ":", "\"", "x", "\"", "}">>

SessionAnswers == {Body(9), Body(10)}
SessionCompletions == {FLAT, PROSE, <<"{", "}">>, SCORE_TEXT}

InitSession ==
    /\ call = [fn |-> "none"]
    /\ ret = Pending
    /\ genlog = <<>>
    /\ collected = <<>>
    /\ requests = <<>>
    /\ loop = 0

\* POST /answer; the client keeps the evaluation of the response
AnswerApi ==
    /\ call.fn # "final_report_api"
    /\ Len(collected) < MaxAnswers
    /\ \E answer \in SessionAnswers, d1 \in SessionCompletions, d2 \in SessionCompletions :
          LET done(r) ==
                  /\ call' = [fn |-> "answer_api", answer |-> answer, text |-> d1, text2 |-> d2]
                  /\ ret' = Returned(r.resp)
                  /\ genlog' = r.calls
                  /\ collected' = Append(collected, r.resp.body.evaluation)
          IN  done(answer_api(answer, d1, d2))
    /\ UNCHANGED <<requests, loop>>

\* POST /final_report with the evaluations collected
FinalReportApi ==
    /\ call.fn # "final_report_api"
    /\ call' = [fn |-> "final_report_api", evaluations |-> collected]
    /\ ret' = Returned(final_report_api(collected))
    /\ genlog' = <<>>
    /\ UNCHANGED <<collected, requests, loop>>

NextSession == AnswerApi \/ FinalReportApi

SpecSession == InitSession /\ [][NextSession]_vars

\* C5: /final_report has no failure path: for any sequence of /answer
\* calls, the list of their evaluation records gives a report object.
C5_FinalReportNeverRaises ==
    call.fn = "final_report_api"
    => /\ ret.kind = "value"
       /\ ret.v.status = 200
       /\ ret.v.body.k = "dict"
       /\ K_overall_score \in DOMAIN ret.v.body.d

(* ------------------------------ the server ---------------------------- *)

MaxRequests == 2

RequestIds == 1..MaxRequests

Read(pages) == [pages |-> pages, failAt |-> Len(pages) + 1]

ServerPdfs == {[fitz |-> Read(<<PAGE_CONTACT>>), plumber |-> Read(<<>>)],
               [fitz |-> Read(<<PAGE_CONTACT>>), plumber |-> Read(<<PAGE_NUMBER>>)]}
ServerAnswers == {Body(9), Body(10)}
ServerDecodeds == {FLAT, PROSE}
ServerEvaluations == {<<>>, <<evaluate_default>>}

ArgsFor(endpoint) ==
    CASE endpoint = "upload_resume" -> ServerPdfs
      [] endpoint = "generate_questions" -> {<<>>}
      [] endpoint = "answer" -> ServerAnswers
      [] endpoint = "final_report" -> ServerEvaluations

Endpoints == {"upload_resume", "generate_questions", "answer", "final_report"}

NoResponse == Response(0, <<>>)

Absent == [endpoint |-> "none", pc |-> "absent", arg |-> <<>>, followup |-> <<>>,
           resp |-> NoResponse]

Init ==
    /\ call = [fn |-> "none"]
    /\ ret = Pending
    /\ genlog = <<>>
    /\ collected = <<>>
    /\ requests = [id \in RequestIds |-> Absent]
    /\ loop = 0

At(id, endpoint, pc) == requests[id].endpoint = endpoint /\ requests[id].pc = pc

Goto(id, pc) == requests' = [requests EXCEPT ![id].pc = pc]

Finish(id, resp) == requests' = [requests EXCEPT ![id].pc = "done", ![id].resp = resp]

\* a client sends a request
Arrive(id) ==
    /\ requests[id].pc = "absent"
    /\ \E endpoint \in Endpoints : \E arg \in ArgsFor(endpoint) :
          requests' = [requests EXCEPT ![id] =
                          [Absent EXCEPT !.endpoint = endpoint, !.pc = "queued", !.arg = arg]]
    /\ UNCHANGED <<call, ret, genlog, collected, loop>>

\* The event loop, when free, starts the request: a def endpoint (lines 285,
\* 291, 299) runs in a thread of the pool; the async def upload_resume
\* (line 274) is a coroutine that first awaits file.read().
Dispatch(id) ==
    /\ requests[id].pc = "queued"
    /\ loop = 0
    /\ Goto(id, IF requests[id].endpoint = "upload_resume" THEN "reading" ELSE "running")
    /\ UNCHANGED <<call, ret, genlog, collected, loop>>

\* line 276 returns: the coroutine goes on, on the event loop thread, which
\* it holds until it returns
UploadResumed(id) ==
    /\ At(id, "upload_resume", "reading")
    /\ loop = 0
    /\ loop' = id
    /\ Goto(id, "running")
    /\ UNCHANGED <<call, ret, genlog, collected>>

\* lines 146-148: the text is extracted and checked
UploadExtract(id) ==
    /\ At(id, "upload_resume", "running")
    /\ LET checked(r) ==
               IF r.calls = <<>>
               THEN /\ Finish(id, r.resp)
                    /\ loop' = 0
               ELSE /\ Goto(id, "generate")
                    /\ UNCHANGED loop
       IN  checked(upload_resume(requests[id].arg, <<>>))
    /\ UNCHANGED <<call, ret, genlog, collected>>

\* line 166: model.generate returns
UploadFinish(id) ==
    /\ At(id, "upload_resume", "generate")
    /\ \E decoded \in ServerDecodeds :
          Finish(id, upload_resume(requests[id].arg, decoded).resp)
    /\ loop' = 0
    /\ UNCHANGED <<call, ret, genlog, collected>>

\* line 187: gen_questions enters generate
QuestionsGenerate(id) ==
    /\ At(id, "generate_questions", "running")
    /\ Goto(id, "generate")
    /\ UNCHANGED <<call, ret, genlog, collected, loop>>

QuestionsFinish(id) ==
    /\ At(id, "generate_questions", "generate")
    /\ \E decoded \in ServerDecodeds : Finish(id, generate_questions_api(decoded))
    /\ UNCHANGED <<call, ret, genlog, collected, loop>>

\* lines 199-210: gen_followup answers at once or enters generate
AnswerFollowup(id) ==
    /\ At(id, "answer", "running")
    /\ LET checked(r) ==
               IF r.calls = <<>>
               THEN requests' = [requests EXCEPT ![id].pc = "evaluate", ![id].followup = r.v]
               ELSE Goto(id, "generate")
       IN  checked(gen_followup(requests[id].arg, <<>>))
    /\ UNCHANGED <<call, ret, genlog, collected, loop>>

AnswerFollowupFinish(id) ==
    /\ At(id, "answer", "generate")
    /\ \E decoded \in ServerDecodeds :
          requests' = [requests EXCEPT ![id].pc = "evaluate",
                                       ![id].followup = gen_followup(requests[id].arg, decoded).v]
    /\ UNCHANGED <<call, ret, genlog, collected, loop>>

\* line 230: evaluate enters generate
AnswerEvaluate(id) ==
    /\ At(id, "answer", "evaluate")
    /\ Goto(id, "generate2")
    /\ UNCHANGED <<call, ret, genlog, collected, loop>>

AnswerFinish(id) ==
    /\ At(id, "answer", "generate2")
    /\ \E decoded \in ServerDecodeds :
          Finish(id, Response(HTTP_OK, [followup |-> requests[id].followup,
                                        evaluation |-> evaluate(decoded)]))
    /\ UNCHANGED <<call, ret, genlog, collected, loop>>

FinalReport(id) ==
    /\ At(id, "final_report", "running")
    /\ Finish(id, final_report_api(requests[id].arg))
    /\ UNCHANGED <<call, ret, genlog, collected, loop>>

Next ==
    \E id \in RequestIds :
        \/ Arrive(id)
        \/ Dispatch(id)
        \/ UploadResumed(id)
        \/ UploadExtract(id)
        \/ UploadFinish(id)
        \/ QuestionsGenerate(id)
        \/ QuestionsFinish(id)
        \/ AnswerFollowup(id)
        \/ AnswerFollowupFinish(id)
        \/ AnswerEvaluate(id)
        \/ AnswerFinish(id)
        \/ FinalReport(id)

Spec == Init /\ [][Next]_vars

\* the requests that are inside model.generate (line 50)
InModelGenerate ==
    {id \in DOMAIN requests : requests[id].pc \in {"generate", "generate2"}}

\* C4: requests against the shared model are serialized: at most one
\* generate() call is executing model.generate at any time.
C4_GenerateSerialized == Cardinality(InModelGenerate) <= 1

====
